---- MODULE Spec2Model ----
(***************************************************************************)
(* Model of Logisim_Importer_Project.py: the CircuitTransfer merge engine  *)
(* (load, locate, copy_to_dst, save) and the sequencing done by main().    *)
(*                                                                         *)
(* Elements live in a heap indexed by node identity, so that aliasing      *)
(* between the source tree and the destination tree is expressible.  A     *)
(* top-level child of a <project> root is a heap node with a tag, a name   *)
(* attribute and one child node that carries its opaque payload.           *)
(***************************************************************************)
EXTENDS Integers, Sequences, FiniteSets, TLC

\* heap: the element nodes, by identity.   src, dst: the children of src_root
\* and dst_root, as node identities.   disk: the content of each file and of
\* the remote master.circ.   disk0: disk as it was before the run (history).
\* pc, mode, picked, idx, destination_file: the position and locals of main.
\* exc: the exception of the last call.   log: the calls made so far (history).
\* menu: the nodes of the JSON value held by a JSONMenu, by identity.
\* current, parent_key, history, key_history: the locals of JSONMenu.run.
\* choices: the lines typed so far, trail: the locals of run before each of
\* them, keypath: the keys picked and not undone by Back (history).
VARIABLES heap, src, dst, disk, disk0, pc, mode, picked, idx, destination_file, exc, log,
          menu, current, parent_key, history, key_history, choices, trail, keypath

menuvars == <<menu, current, parent_key, history, key_history, choices, trail, keypath>>
vars == <<heap, src, dst, disk, disk0, pc, mode, picked, idx, destination_file, exc, log, menuvars>>

(***************************************************************************)
(* Bounds of the model.                                                    *)
(***************************************************************************)
MaxSrcLen == 2   \* top-level children of a source document before the run
MaxDstLen == 2   \* top-level children of a destination document before the run
MaxCalls == 2    \* method calls made on one CircuitTransfer object by a client
MaxBatch == 2    \* names in the list returned by the menu

(***************************************************************************)
(* Values.                                                                 *)
(***************************************************************************)
None == "<None>"          \* Python None (new_name default, out_path default)
NoAttr == "<no attribute>" \* element without a name attribute
Unset == <<0>>            \* attribute never assigned (no src_root / no object)

\* A name that closes the quoted literal of the XPath predicate and opens a
\* second predicate: "./circuit[@name='A'][@name='A']".
InjName == "A'][@name='A"
\* A name whose apostrophe leaves the predicate unparsable.
AposName == "it's"

NameArgs == {"A", "B", AposName, InjName}
NewNameArgs == {None, "A2", AposName, InjName}

Elem(tag, name, payload) == [tag |-> tag, name |-> name, payload |-> payload]

\* Top-level children found in source files and in destination files.
SrcElems == {Elem("circuit", "A", "P2"), Elem("circuit", "B", "P3"), Elem("circuit", InjName, "P3")}
DstElems == {Elem("circuit", "A", "P1"), Elem("main", "A", "P0")}

Missing == <<Elem("<missing>", NoAttr, "")>>      \* path that does not exist
Malformed == <<Elem("<malformed>", NoAttr, "")>>  \* content that is not well-formed XML

SeqsUpTo(S, n) == UNION {[1..k -> S] : k \in 0..n}

SrcDocs == SeqsUpTo(SrcElems, MaxSrcLen)
DstDocs == SeqsUpTo(DstElems, MaxDstLen)

NoExc == [type |-> "none", name |-> None, side |-> None]
Raise(type) == [type |-> type, name |-> None, side |-> None]
\* ValueError(f"Circuit '{name}' not found in source")
NotFound(name) == [type |-> "ValueError: Circuit not found", name |-> name, side |-> "source"]

(***************************************************************************)
(* Heap of element nodes.                                                  *)
(***************************************************************************)
UnitNode(tag, name, child) == [tag |-> tag, name |-> name, text |-> "", child |-> child]
PayloadNode(text) == [tag |-> "comp", name |-> NoAttr, text |-> text, child |-> 0]

\* The structure of the element with identity u, ignoring node identity.
StructOf(h, u) == Elem(h[u].tag, h[u].name, h[h[u].child].text)
Struct(h, doc) == [i \in 1..Len(doc) |-> StructOf(h, doc[i])]

\* All nodes of a tree given by the list of its root's children.
Nodes(h, doc) == {doc[i] : i \in 1..Len(doc)} \cup {h[doc[i]].child : i \in 1..Len(doc)}

\* ET.parse / ET.fromstring: builds fresh nodes for every element of the text.
Parse(h, content) ==
    [heap |-> h \o [j \in 1..(2 * Len(content)) |->
                      IF j % 2 = 1 THEN PayloadNode(content[(j + 1) \div 2].payload)
                      ELSE UnitNode(content[j \div 2].tag, content[j \div 2].name, Len(h) + j - 1)],
     doc |-> [i \in 1..Len(content) |-> Len(h) + 2 * i]]

\* A shallow copy: a new element that shares the descendants of the original.
shallowcopy(h, u) == [heap |-> Append(h, h[u]), clone |-> Len(h) + 1]

\* No copy at all: the element itself.
aliascopy(h, u) == [heap |-> h, clone |-> u]

\* copy.deepcopy(element): a new element with new copies of its descendants.
deepcopy(h, u) ==
    [heap |-> h \o <<h[h[u].child], [h[u] EXCEPT !.child = Len(h) + 1]>>,
     clone |-> Len(h) + 2]

\* Element.set("name", value): mutates the node in place.
ElemSet(h, u, value) == [h EXCEPT ![u].name = value]

(***************************************************************************)
(* Named-unit locator.                                                     *)
(***************************************************************************)
\* f"./circuit[@name='{name}']" as ElementPath reads it: the name is pasted
\* between apostrophes without escaping.  A name without an apostrophe gives
\* the predicate [@name='name']; AposName gives text that is no predicate
\* (SyntaxError: invalid predicate); InjName gives [@name='A'][@name='A'].
XPath(name) ==
    IF name = AposName THEN [ok |-> FALSE, key |-> None]
    ELSE IF name = InjName THEN [ok |-> TRUE, key |-> "A"]
    ELSE [ok |-> TRUE, key |-> name]

Min(S) == CHOOSE x \in S : \A y \in S : x <= y

\* root.find(f"./circuit[@name='{name}']"): the first child with tag circuit
\* that satisfies the predicate, or None (elem = 0); raises on a bad predicate.
find(h, doc, name) ==
    LET q == XPath(name)
        hits == {i \in 1..Len(doc) : h[doc[i]].tag = "circuit" /\ h[doc[i]].name = q.key}
    IN  IF ~q.ok THEN [exc |-> Raise("SyntaxError"), elem |-> 0]
        ELSE IF hits = {} THEN [exc |-> NoExc, elem |-> 0]
        ELSE [exc |-> NoExc, elem |-> doc[Min(hits)]]

get_src_circuit(h, s, name) == find(h, s, name)
get_dst_circuit(h, d, name) == find(h, d, name)

\* root.remove(element): deletes the first occurrence of that very element.
remove(doc, u) ==
    LET k == Min({i \in 1..Len(doc) : doc[i] = u})
    IN  [i \in 1..(Len(doc) - 1) |-> IF i < k THEN doc[i] ELSE doc[i + 1]]

(***************************************************************************)
(* Unit transfer engine.                                                   *)
(***************************************************************************)
copy_to_dst(h, s, d, name, new_name) ==
    IF s = Unset THEN [heap |-> h, dst |-> d, exc |-> Raise("AttributeError")]
    ELSE
    LET src_circuit == get_src_circuit(h, s, name) IN
    IF src_circuit.exc # NoExc THEN [heap |-> h, dst |-> d, exc |-> src_circuit.exc]
    ELSE IF src_circuit.elem = 0 THEN [heap |-> h, dst |-> d, exc |-> NotFound(name)]
    ELSE
    LET c == deepcopy(h, src_circuit.elem)
        h2 == IF new_name # None THEN ElemSet(c.heap, c.clone, new_name) ELSE c.heap
        final_name == IF new_name # None THEN new_name ELSE name
        dst_existing == get_dst_circuit(h2, d, final_name)
    IN  IF dst_existing.exc # NoExc THEN [heap |-> h2, dst |-> d, exc |-> dst_existing.exc]
        ELSE [heap |-> h2,
              dst |-> Append(IF dst_existing.elem # 0 THEN remove(d, dst_existing.elem) ELSE d,
                             c.clone),
              exc |-> NoExc]

(***************************************************************************)
(* Paths, loading and saving.                                              *)
(***************************************************************************)
Files == {"dst.circ", "src.circ", "master.circ", "out.circ"}
\* The copy of master.circ that urlopen fetches; not part of the file system.
Url == "https://raw.githubusercontent.com/ilman01/LIP/refs/heads/main/master.circ"

\* path.strip().strip("'").strip("\"") followed by os.path.abspath; the empty
\* string resolves to the working directory.
Cleaned(path) ==
    IF path = " 'dst.circ' " THEN "dst.circ"
    ELSE IF path = "" THEN "."
    ELSE path

Exists(d, p) == p = "." \/ (p \in Files /\ d[p] # Missing)
IsFile(d, p) == p \in Files /\ d[p] # Missing

_sanitize_path(d, path) ==
    IF path = None THEN [exc |-> Raise("TypeError"), path |-> None]
    ELSE IF ~Exists(d, Cleaned(path)) THEN [exc |-> Raise("FileNotFoundError"), path |-> None]
    ELSE IF ~IsFile(d, Cleaned(path)) THEN [exc |-> Raise("ValueError: Path is not a file"), path |-> None]
    ELSE [exc |-> NoExc, path |-> Cleaned(path)]

\* _import_source_file / _import_destination_file: sanitize, then ET.parse.
ImportFile(h, d, path) ==
    LET p == _sanitize_path(d, path) IN
    IF p.exc # NoExc THEN [heap |-> h, doc |-> Unset, exc |-> p.exc]
    ELSE IF d[p.path] = Malformed THEN [heap |-> h, doc |-> Unset, exc |-> Raise("ParseError")]
    ELSE [heap |-> Parse(h, d[p.path]).heap, doc |-> Parse(h, d[p.path]).doc, exc |-> NoExc]

\* As CircuitTransferInit, but the destination is imported before the source.
CircuitTransferInitDstFirst(h, d, src_path, dst_path) ==
    LET t == ImportFile(h, d, dst_path)
        s == IF src_path # "" /\ src_path # None THEN ImportFile(t.heap, d, src_path)
             ELSE [heap |-> t.heap, doc |-> Unset, exc |-> NoExc]
    IN  IF t.exc # NoExc THEN [heap |-> t.heap, src |-> Unset, dst |-> Unset, exc |-> t.exc]
        ELSE [heap |-> s.heap, src |-> s.doc, dst |-> t.doc, exc |-> s.exc]

\* CircuitTransfer.__init__: the source is imported first, and only when
\* src_path is truthy; then the destination.
CircuitTransferInit(h, d, src_path, dst_path) ==
    LET s == IF src_path # "" /\ src_path # None THEN ImportFile(h, d, src_path)
             ELSE [heap |-> h, doc |-> Unset, exc |-> NoExc]
        t == ImportFile(s.heap, d, dst_path)
    IN  IF s.exc # NoExc THEN [heap |-> s.heap, src |-> Unset, dst |-> Unset, exc |-> s.exc]
        ELSE [heap |-> t.heap, src |-> s.doc, dst |-> t.doc, exc |-> t.exc]

\* load_source_from_string: ET.fromstring, then src_tree and src_root replaced.
load_source_from_string(h, s, xml_string) ==
    IF xml_string = Malformed THEN [heap |-> h, src |-> s, exc |-> Raise("ParseError")]
    ELSE [heap |-> Parse(h, xml_string).heap, src |-> Parse(h, xml_string).doc, exc |-> NoExc]

\* What dst_tree.write leaves in the file: the elements of the tree in order.
Serialize(h, d) == Struct(h, d)

WriteOutcomes == {"written", "denied", "partial"}

\* save: the path is sanitized first (so None raises TypeError and the test
\* on line 84 never fires); write either succeeds, cannot open the file, or
\* stops part-way through.
save(h, dd, d, out_path, outcome) ==
    LET p == _sanitize_path(d, out_path) IN
    IF p.exc # NoExc THEN [disk |-> d, exc |-> p.exc]
    ELSE IF outcome = "denied" THEN [disk |-> d, exc |-> Raise("OSError")]
    ELSE IF outcome = "partial" THEN [disk |-> [d EXCEPT ![p.path] = Malformed], exc |-> Raise("OSError")]
    ELSE [disk |-> [d EXCEPT ![p.path] = Serialize(h, dd)], exc |-> NoExc]

(***************************************************************************)
(* A client of the class: any method, in any order, on an object           *)
(* constructed from a source file and a destination file.  An exception is *)
(* caught by the client, which may go on.                                  *)
(***************************************************************************)
\* No JSONMenu has been constructed and run is not executing.
NoMenu ==
    /\ menu = <<>>
    /\ current = 0
    /\ parent_key = None
    /\ history = <<>>
    /\ key_history = <<>>
    /\ choices = <<>>
    /\ trail = <<>>
    /\ keypath = <<>>

Call(op, arg, new_name, e) == [op |-> op, arg |-> arg, new_name |-> new_name, exc |-> e]

World(S, D, M) ==
    [p \in Files \cup {Url} |->
        IF p = "dst.circ" THEN D
        ELSE IF p = "src.circ" THEN S
        ELSE IF p = "master.circ" THEN M
        ELSE IF p = "out.circ" THEN <<>>
        ELSE S]

\* The (name, new_name) pairs a client passes to copy_to_dst.
CopyArgs == {<<n, None>> : n \in NameArgs} \cup {<<"A", nn>> : nn \in NewNameArgs}
SaveArgs == {None, "dst.circ"}
LoadArgs == {<<Elem("circuit", "A", "P3"), Elem("circuit", "B", "P3")>>, Malformed}

Init ==
    \E S \in SrcDocs, D \in DstDocs :
        LET t == CircuitTransferInit(<<>>, World(S, D, Missing), "src.circ", "dst.circ") IN
        /\ heap = t.heap
        /\ src = t.src
        /\ dst = t.dst
        /\ disk = World(S, D, Missing)
        /\ disk0 = disk
        /\ pc = "client"
        /\ mode = "client"
        /\ picked = [leaf |-> "none", items |-> <<>>]
        /\ idx = 0
        /\ destination_file = "dst.circ"
        /\ exc = NoExc
        /\ log = <<>>
        /\ NoMenu

CopyToDst ==
    /\ pc = "client"
    /\ Len(log) < MaxCalls
    /\ \E a \in CopyArgs :
          LET r == copy_to_dst(heap, src, dst, a[1], a[2]) IN
          /\ heap' = r.heap
          /\ dst' = r.dst
          /\ exc' = r.exc
          /\ log' = Append(log, Call("copy_to_dst", a[1], a[2], r.exc))
    /\ UNCHANGED <<src, disk, pc, mode, picked, idx, destination_file, disk0, menuvars>>

Save ==
    /\ pc = "client"
    /\ Len(log) < MaxCalls
    /\ \E out_path \in SaveArgs, outcome \in WriteOutcomes :
          LET r == save(heap, dst, disk, out_path, outcome) IN
          /\ disk' = r.disk
          /\ exc' = r.exc
          /\ log' = Append(log, Call("save", out_path, None, r.exc))
    /\ UNCHANGED <<heap, src, dst, pc, mode, picked, idx, destination_file, disk0, menuvars>>

LoadSourceFromString ==
    /\ pc = "client"
    /\ Len(log) < MaxCalls
    /\ \E xml_string \in LoadArgs :
          LET r == load_source_from_string(heap, src, xml_string) IN
          /\ heap' = r.heap
          /\ src' = r.src
          /\ exc' = r.exc
          /\ log' = Append(log, Call("load_source_from_string", None, None, r.exc))
    /\ UNCHANGED <<dst, disk, pc, mode, picked, idx, destination_file, disk0, menuvars>>

Next == CopyToDst \/ Save \/ LoadSourceFromString

Spec == Init /\ [][Next]_vars

(***************************************************************************)
(* main(): one run of the program, from the first prompt to its return or  *)
(* to the uncaught exception that ends it.                                 *)
(***************************************************************************)
CopyCirc == [leaf |-> "copy_circ", items |-> <<>>]
\* A leaf that is a list of names (or a string, iterated character by character).
NameList(items) == [leaf |-> "list", items |-> items]
\* A leaf that cannot be iterated (a number, true, false, null).
Scalar == [leaf |-> "scalar", items |-> <<>>]

Picks == {CopyCirc, Scalar} \cup {NameList(b) : b \in SeqsUpTo(NameArgs, MaxBatch)}

DestInputs == {" 'dst.circ' ", "nofile", ""}
SourceInputs == {"src.circ", "dst.circ", "nofile", ""}

MainInit ==
    \E S \in SrcDocs, D \in DstDocs \cup {Malformed}, local \in BOOLEAN :
        /\ heap = <<>>
        /\ src = Unset
        /\ dst = Unset
        /\ disk = World(S, D, IF local THEN S ELSE Missing)
        /\ disk0 = disk
        /\ pc = "start"
        /\ mode = "none"
        /\ picked = [leaf |-> "none", items |-> <<>>]
        /\ idx = 0
        /\ destination_file = None
        /\ exc = NoExc
        /\ log = <<>>
        /\ NoMenu

\* As After, but a not-found error is swallowed and main goes on.
AfterSwallowed(e, next) ==
    IF e = NoExc \/ e.type = "ValueError: Circuit not found" THEN next ELSE "raised"

\* Where main goes after a call: on when it returned, out when it raised.
After(e, next) == IF e = NoExc THEN next ELSE "raised"

\* Lines 162-171: the destination prompt, the menu (from the local file or
\* fetched), and the walk of the menu that returns a leaf.
MainStart ==
    /\ pc = "start"
    /\ \E d \in DestInputs : destination_file' = d
    /\ \/ /\ \E p \in Picks : picked' = p
          /\ exc' = NoExc
          /\ pc' = IF picked' = CopyCirc THEN "manual" ELSE "batch"
       \/ /\ exc' = Raise("URLError")
          /\ pc' = "raised"
          /\ UNCHANGED picked
    /\ UNCHANGED <<heap, src, dst, disk, mode, idx, log, disk0, menuvars>>

\* Lines 174-176: the two prompts and the construction of the transfer object.
MainManualInit ==
    /\ pc = "manual"
    /\ \E source_file \in SourceInputs, circ_name \in NameArgs :
          LET t == CircuitTransferInit(heap, disk, source_file, destination_file) IN
          /\ heap' = t.heap
          /\ src' = t.src
          /\ dst' = t.dst
          /\ exc' = t.exc
          /\ picked' = [leaf |-> "copy_circ", items |-> <<circ_name>>]
          /\ log' = Append(log, Call("CircuitTransfer", source_file, None, t.exc))
          /\ pc' = After(t.exc, "copy")
    /\ mode' = "manual"
    /\ idx' = 1
    /\ UNCHANGED <<disk, destination_file, disk0, menuvars>>

\* Lines 181-187: the default source, local if master.circ exists, else fetched.
MainBatchInit ==
    /\ pc = "batch"
    /\ mode' = "batch"
    /\ idx' = 1
    /\ IF Exists(disk, "master.circ")
       THEN LET t == CircuitTransferInit(heap, disk, "master.circ", destination_file) IN
            /\ heap' = t.heap
            /\ src' = t.src
            /\ dst' = t.dst
            /\ exc' = t.exc
            /\ log' = Append(log, Call("CircuitTransfer", "master.circ", None, t.exc))
            /\ pc' = After(t.exc, "loop")
       ELSE \/ /\ exc' = Raise("URLError")
               /\ pc' = "raised"
               /\ UNCHANGED <<heap, src, dst, log, disk0, menuvars>>
            \/ LET t == CircuitTransferInit(heap, disk, "", destination_file)
                   l == load_source_from_string(t.heap, t.src, disk[Url])
               IN  IF t.exc # NoExc
                   THEN /\ heap' = t.heap
                        /\ src' = t.src
                        /\ dst' = t.dst
                        /\ exc' = t.exc
                        /\ log' = Append(log, Call("CircuitTransfer", "", None, t.exc))
                        /\ pc' = "raised"
                   ELSE /\ heap' = l.heap
                        /\ src' = l.src
                        /\ dst' = t.dst
                        /\ exc' = l.exc
                        /\ log' = log \o <<Call("CircuitTransfer", "", None, t.exc),
                                           Call("load_source_from_string", None, None, l.exc)>>
                        /\ pc' = After(l.exc, "loop")
    /\ UNCHANGED <<disk, picked, destination_file, disk0, menuvars>>

\* Line 177: the single transfer of the manual copy.
MainManualCopy ==
    /\ pc = "copy"
    /\ LET r == copy_to_dst(heap, src, dst, picked.items[1], None) IN
       /\ heap' = r.heap
       /\ dst' = r.dst
       /\ exc' = r.exc
       /\ log' = Append(log, Call("copy_to_dst", picked.items[1], None, r.exc))
       /\ pc' = After(r.exc, "save")
    /\ idx' = idx + 1
    /\ UNCHANGED <<src, disk, mode, picked, destination_file, disk0, menuvars>>

\* Lines 189-190: one iteration of the batch loop.
MainBatchCopy ==
    /\ pc = "loop"
    /\ picked.leaf = "list"
    /\ idx <= Len(picked.items)
    /\ LET r == copy_to_dst(heap, src, dst, picked.items[idx], None) IN
       /\ heap' = r.heap
       /\ dst' = r.dst
       /\ exc' = r.exc
       /\ log' = Append(log, Call("copy_to_dst", picked.items[idx], None, r.exc))
       /\ pc' = After(r.exc, "loop")
    /\ idx' = idx + 1
    /\ UNCHANGED <<src, disk, mode, picked, destination_file, disk0, menuvars>>

\* Line 189: the loop ends, or the leaf cannot be iterated at all.
MainBatchEnd ==
    /\ pc = "loop"
    /\ \/ /\ picked.leaf = "list"
          /\ idx > Len(picked.items)
          /\ exc' = NoExc
          /\ pc' = "save"
       \/ /\ picked.leaf = "scalar"
          /\ exc' = Raise("TypeError")
          /\ pc' = "raised"
    /\ UNCHANGED <<heap, src, dst, disk, mode, picked, idx, destination_file, log, disk0, menuvars>>

\* Lines 178 and 192: transfer.save(destination_file), then main returns.
MainSave ==
    /\ pc = "save"
    /\ \E outcome \in WriteOutcomes :
          LET r == save(heap, dst, disk, destination_file, outcome) IN
          /\ disk' = r.disk
          /\ exc' = r.exc
          /\ log' = Append(log, Call("save", destination_file, None, r.exc))
          /\ pc' = After(r.exc, "returned")
    /\ UNCHANGED <<heap, src, dst, mode, picked, idx, destination_file, disk0, menuvars>>

MainNext ==
    \/ MainStart
    \/ MainManualInit
    \/ MainBatchInit
    \/ MainManualCopy
    \/ MainBatchCopy
    \/ MainBatchEnd
    \/ MainSave

MainSpec == MainInit /\ [][MainNext]_vars

(***************************************************************************)
(* Vocabulary of the properties.                                           *)
(***************************************************************************)
\* The step made the call op (the call is the last entry of the log).
Called(op) == Len(log') > Len(log) /\ log'[Len(log')].op = op
CopyOK == Called("copy_to_dst") /\ exc' = NoExc
TheCall == log'[Len(log')]
FinalName == IF TheCall.new_name # None THEN TheCall.new_name ELSE TheCall.arg

IsUnit(h, u) == h[u].tag = "circuit"
\* Positions of the units of a document whose name is exactly name.
Named(h, doc, name) == {i \in 1..Len(doc) : IsUnit(h, doc[i]) /\ h[doc[i]].name = name}
HasUnit(h, doc, name) == Named(h, doc, name) # {}
Unique(h, doc) ==
    \A i, j \in 1..Len(doc) :
        (i # j /\ IsUnit(h, doc[i]) /\ IsUnit(h, doc[j])) => h[doc[i]].name # h[doc[j]].name
PayloadOf(h, u) == h[h[u].child].text

LastCall == log[Len(log)]
AfterCopyOK == Len(log) > 0 /\ LastCall.op = "copy_to_dst" /\ LastCall.exc = NoExc

(***************************************************************************)
(* Properties of copy_to_dst, checked under Spec.                          *)
(***************************************************************************)

\* C1 (Uniqueness, I1): a successful copy_to_dst never produces a destination
\* in which two units share a name.  Stated as the step the claim needs: from a
\* destination whose unit names are unique, a successful call yields a
\* destination whose unit names are unique.
C1_Uniqueness ==
    [][(CopyOK /\ Unique(heap, dst)) => Unique(heap', dst')]_vars

\* C2 (Not-found, no partial application): a copy_to_dst whose name is the name
\* of no source unit fails with the not-found error naming that name and the
\* source side, and leaves the destination as it was; and a copy_to_dst that
\* fails, fails with that error and before any change of the destination.
C2_NotFound ==
    [][(Called("copy_to_dst") /\ src # Unset) =>
          /\ ~HasUnit(heap, src, TheCall.arg) =>
                /\ exc' = NotFound(TheCall.arg)
                /\ dst' = dst
                /\ Struct(heap', dst') = Struct(heap, dst)
          /\ exc' # NoExc =>
                /\ exc' = NotFound(TheCall.arg)
                /\ dst' = dst
                /\ Struct(heap', dst') = Struct(heap, dst)]_vars

\* C3 (Replacement policy): when the destination has a unit named A and the
\* source has a unit named A with payload P2 (one such unit on each side),
\* then after a successful copy_to_dst(A) every destination unit named A has
\* payload P2, and there is exactly one.
C3_Replacement ==
    [][(/\ CopyOK
        /\ TheCall.new_name = None
        /\ Cardinality(Named(heap, dst, TheCall.arg)) = 1
        /\ Cardinality(Named(heap, src, TheCall.arg)) = 1) =>
          LET A == TheCall.arg
              P2 == PayloadOf(heap, src[Min(Named(heap, src, A))])
          IN  /\ Cardinality(Named(heap', dst', A)) = 1
              /\ \A i \in Named(heap', dst', A) : PayloadOf(heap', dst'[i]) = P2]_vars

\* The children of doc without the first unit whose name is exactly name.
WithoutFirstNamed(h, doc, name) ==
    IF HasUnit(h, doc, name) THEN remove(doc, doc[Min(Named(h, doc, name))]) ELSE doc

\* C4 (Preservation of order): after a successful copy_to_dst with final name
\* F the destination's children are the previous children other than the
\* replaced unit named F, in their previous order, followed by one new node,
\* the clone.
C4_Order ==
    [][CopyOK =>
          /\ Len(dst') >= 1
          /\ SubSeq(dst', 1, Len(dst') - 1) = WithoutFirstNamed(heap, dst, FinalName)
          /\ Struct(heap', SubSeq(dst', 1, Len(dst') - 1))
                = Struct(heap, WithoutFirstNamed(heap, dst, FinalName))
          /\ dst'[Len(dst')] \notin Nodes(heap, dst)]_vars

\* C5 (Idempotence): a successful copy_to_dst followed at once by a call with
\* the same arguments leaves a destination structurally equal to the one the
\* first call left.  Stated for a destination whose unit names are unique
\* after the first call.
C5_Idempotence ==
    [][(/\ AfterCopyOK
        /\ Unique(heap, dst)
        /\ Called("copy_to_dst")
        /\ Len(log') = Len(log) + 1
        /\ TheCall.arg = LastCall.arg
        /\ TheCall.new_name = LastCall.new_name) =>
          /\ exc' = NoExc
          /\ Struct(heap', dst') = Struct(heap, dst)]_vars

\* C6 (Rename): a successful copy_to_dst(A, new_name = A2) with A2 # A, A the
\* name of a source unit, ends with a last destination unit named A2 that
\* carries the payload of the source's unit A; the destination units named A
\* are the same nodes as before; and the source is as it was.
C6_Rename ==
    [][(/\ CopyOK
        /\ TheCall.new_name # None
        /\ TheCall.new_name # TheCall.arg
        /\ HasUnit(heap, src, TheCall.arg)) =>
          LET A == TheCall.arg
              A2 == TheCall.new_name
              u == dst'[Len(dst')]
          IN  /\ heap'[u].name = A2
              /\ PayloadOf(heap', u) = PayloadOf(heap, src[Min(Named(heap, src, A))])
              /\ {dst'[i] : i \in Named(heap', dst', A)} = {dst[i] : i \in Named(heap, dst, A)}
              /\ src' = src
              /\ Struct(heap', src') = Struct(heap, src)]_vars

\* A later edit of the element u: its attributes and its text are overwritten.
Edited(h, u) == [h EXCEPT ![u].name = "<edited>", ![u].text = "<edited>"]

\* C7 (Independence, I2): the source tree and the destination tree share no
\* node; and once copy_to_dst has inserted a clone, an edit of a node of the
\* clone leaves every source unit as it was, and an edit of any source node
\* leaves the clone as it was.
C7_Independence ==
    (src # Unset /\ dst # Unset) =>
        /\ Nodes(heap, src) \cap Nodes(heap, dst) = {}
        /\ AfterCopyOK =>
              LET clone == dst[Len(dst)] IN
              /\ \A u \in {clone, heap[clone].child} :
                    Struct(Edited(heap, u), src) = Struct(heap, src)
              /\ \A u \in Nodes(heap, src) :
                    StructOf(Edited(heap, u), clone) = StructOf(heap, clone)

\* A renamed clone has been appended to a destination that had children.
C7_Witness ==
    /\ AfterCopyOK
    /\ LastCall.new_name = "A2"
    /\ Len(dst) >= 2
    /\ heap[dst[Len(dst)]].name = "A2"
    /\ Len(log) = 2

(***************************************************************************)
(* Properties of a run of main, checked under MainSpec.                    *)
(***************************************************************************)
RECURSIVE Apply(_, _, _, _)
\* copy_to_dst(name) for each name in turn; a call that raises changes nothing.
Apply(h, s, d, names) ==
    IF names = <<>> THEN [heap |-> h, dst |-> d]
    ELSE LET r == copy_to_dst(h, s, d, Head(names), None)
         IN  Apply(r.heap, s, r.dst, Tail(names))

\* The structure of destination D after the transfers of names from source S.
Effect(S, D, names) ==
    LET a == Parse(<<>>, S)
        b == Parse(a.heap, D)
        r == Apply(b.heap, a.doc, b.doc, names)
    IN  Struct(r.heap, r.dst)

InBatch ==
    /\ mode = "batch"
    /\ picked.leaf = "list"
    /\ pc \in {"loop", "save", "returned", "raised"}
    /\ src # Unset
    /\ dst # Unset

\* C8 (Batch partial application): once the batch loop has come to a name that
\* is the name of no source unit, the run has stopped at that name with the
\* not-found error naming it, and the destination in memory holds the effect
\* of the transfers before that name and of none after it.
C8_BatchPartial ==
    InBatch =>
        \A k \in 1..Len(picked.items) :
            (k < idx /\ ~HasUnit(heap, src, picked.items[k])) =>
                /\ pc = "raised"
                /\ exc = NotFound(picked.items[k])
                /\ idx = k + 1
                /\ Struct(heap, dst)
                     = Effect(Struct(heap, src), disk0[Cleaned(destination_file)],
                              SubSeq(picked.items, 1, k - 1))

FailedCopy(l) == \E i \in 1..Len(l) : l[i].op = "copy_to_dst" /\ l[i].exc # NoExc
NoSave(l) == \A i \in 1..Len(l) : l[i].op # "save"

\* C9 (No partial-success file write): a step that changes a file is a save;
\* and once a transfer of the run has failed, the run has ended with the
\* exception, no save was made and every file is what it was before the run.
C9_NoPartialWrite ==
    [][/\ disk' # disk => Called("save")
       /\ FailedCopy(log') =>
             /\ pc' = "raised"
             /\ NoSave(log')
             /\ disk' = disk0']_vars

\* A batch run ended by a transfer that failed after one that succeeded.
C9_Witness ==
    /\ mode = "batch"
    /\ pc = "raised"
    /\ FailedCopy(log)
    /\ \E i \in 1..Len(log) : log[i].op = "copy_to_dst" /\ log[i].exc = NoExc
    /\ Len(dst) > Len(disk0[Cleaned(destination_file)])

RECURSIVE KeepLast(_)
\* The names of a batch, each at the place of its last occurrence.
KeepLast(names) ==
    IF names = <<>> THEN <<>>
    ELSE IF \E j \in 2..Len(names) : names[j] = Head(names) THEN KeepLast(Tail(names))
    ELSE <<Head(names)>> \o KeepLast(Tail(names))

IsCopy(c) == c.op = "copy_to_dst"
UniqueContent(content) ==
    \A i, j \in 1..Len(content) :
        (i # j /\ content[i].tag = "circuit" /\ content[j].tag = "circuit")
            => content[i].name # content[j].name

\* C10 (Batch ordering, last-write-wins): when the batch loop has ended
\* without an error, copy_to_dst was called once per element of the list, in
\* the order of the list; and (for a destination file whose unit names were
\* unique) each name of the list is the name of exactly one destination unit
\* and the last children of the destination are the transferred units, in the
\* order of the last occurrence of their names in the list.
C10_BatchOrder ==
    (InBatch /\ pc \in {"save", "returned"}) =>
        LET items == picked.items
            last == KeepLast(items)
            n == Len(last)
        IN  /\ SelectSeq(log, IsCopy)
                 = [k \in 1..Len(items) |-> Call("copy_to_dst", items[k], None, NoExc)]
            /\ UniqueContent(disk0[Cleaned(destination_file)]) =>
                  /\ \A k \in 1..Len(items) : Cardinality(Named(heap, dst, items[k])) = 1
                  /\ Len(dst) >= n
                  /\ \A k \in 1..n :
                        /\ IsUnit(heap, dst[Len(dst) - n + k])
                        /\ heap[dst[Len(dst) - n + k]].name = last[k]


(***************************************************************************)
(* Further properties of copy_to_dst and save, checked under Spec.         *)
(***************************************************************************)
\* The children of doc other than the units whose name is exactly name.
Others(h, doc, name) ==
    LET Other(u) == ~(IsUnit(h, u) /\ h[u].name = name) IN SelectSeq(doc, Other)

\* C11 (Frame on the destination, I3): a successful copy_to_dst with final
\* name F keeps every child of the destination that is not a unit named F:
\* the same nodes, in the same order, with the same tag, name and payload,
\* which is what a following save writes.
C11_FrameDst ==
    [][CopyOK =>
          LET before == Others(heap, dst, FinalName)
              after == Others(heap', SubSeq(dst', 1, Len(dst') - 1), FinalName)
          IN  /\ after = before
              /\ Serialize(heap', after) = Serialize(heap, before)]_vars


\* C12 (Locator): for every name, get_src_circuit and get_dst_circuit return,
\* without raising, the first unit in document order whose name is exactly
\* that name, and None (0) when no unit has that name.
C12_Locator ==
    \A name \in NameArgs :
        /\ src # Unset =>
              /\ get_src_circuit(heap, src, name).exc = NoExc
              /\ get_src_circuit(heap, src, name).elem
                    = IF HasUnit(heap, src, name) THEN src[Min(Named(heap, src, name))] ELSE 0
        /\ dst # Unset =>
              /\ get_dst_circuit(heap, dst, name).exc = NoExc
              /\ get_dst_circuit(heap, dst, name).elem
                    = IF HasUnit(heap, dst, name) THEN dst[Min(Named(heap, dst, name))] ELSE 0


\* The number of units of a document.
UnitCount(h, doc) == Cardinality({i \in 1..Len(doc) : IsUnit(h, doc[i])})

\* C16 (Collision resolution): after a successful copy_to_dst with final name
\* F on a destination with unique unit names, the destination holds exactly
\* one unit named F, the clone at its end; the number of units grew by one
\* when no unit named F existed and is unchanged when one did.
C16_Collision ==
    [][(CopyOK /\ Unique(heap, dst)) =>
          /\ Named(heap', dst', FinalName) = {Len(dst')}
          /\ UnitCount(heap', dst')
                = IF HasUnit(heap, dst, FinalName) THEN UnitCount(heap, dst)
                                                   ELSE UnitCount(heap, dst) + 1]_vars

\* C17 (save without a path): save(None) raises the ValueError "Must specify
\* output path for destination file" and leaves the disk as it is.
C17_SaveNone ==
    [][(Called("save") /\ TheCall.arg = None) =>
          /\ exc' = Raise("ValueError: Must specify output path for destination file")
          /\ disk' = disk]_vars


\* C15 (Frame on the source): a copy_to_dst call, successful or failed, with
\* or without new_name, leaves the source document as it was: the same nodes
\* in the same order, each with the tag, name and payload it had, which is
\* the content of the source file as long as no other source was loaded.  The
\* unit appended by a successful call carries the payload of the source unit
\* it was copied from.
C15_FrameSrc ==
    [][Called("copy_to_dst") =>
          /\ src' = src
          /\ src # Unset =>
                /\ \A u \in Nodes(heap, src) : heap'[u] = heap[u]
                /\ (\A i \in 1..Len(log) : log[i].op # "load_source_from_string")
                      => Struct(heap', src') = disk0["src.circ"]
                /\ exc' = NoExc =>
                      PayloadOf(heap', dst'[Len(dst')])
                         = PayloadOf(heap, get_src_circuit(heap, src, TheCall.arg).elem)]_vars

\* The source unit A was transferred twice, as A and then as A2: both clones
\* are in the destination with the payload of A, and the source still holds A.
C15_Witness ==
    /\ Len(log) = 2
    /\ \A i \in 1..2 : log[i].op = "copy_to_dst" /\ log[i].arg = "A" /\ log[i].exc = NoExc
    /\ log[1].new_name = None
    /\ log[2].new_name = "A2"
    /\ Len(dst) >= 2
    /\ heap[dst[Len(dst) - 1]].name = "A"
    /\ heap[dst[Len(dst)]].name = "A2"
    /\ PayloadOf(heap, dst[Len(dst) - 1]) = "P2"
    /\ PayloadOf(heap, dst[Len(dst)]) = "P2"
    /\ Struct(heap, src) = disk0["src.circ"]


(***************************************************************************)
(* Further properties of a run of main, checked under MainSpec.            *)
(***************************************************************************)
\* The default source of a batch run had to be fetched.
Remote == mode = "batch" /\ ~Exists(disk0, "master.circ")
\* The number of calls main makes before the first transfer.
Prelude == IF Remote THEN 2 ELSE 1

\* The i-th call of a run of main that nothing aborts: the construction of
\* the transfer object (and, for a fetched source, its loading), one
\* copy_to_dst per requested name (the one prompted name in a manual copy),
\* one save to the destination path.
Expected(i) ==
    IF i = 1 THEN [op |-> "CircuitTransfer",
                   arg |-> IF mode = "manual" THEN log[1].arg
                           ELSE IF Remote THEN "" ELSE "master.circ",
                   new_name |-> None]
    ELSE IF i = 2 /\ Remote THEN [op |-> "load_source_from_string", arg |-> None, new_name |-> None]
    ELSE IF i <= Prelude + Len(picked.items)
         THEN [op |-> "copy_to_dst", arg |-> picked.items[i - Prelude], new_name |-> None]
    ELSE IF i = Prelude + Len(picked.items) + 1
         THEN [op |-> "save", arg |-> destination_file, new_name |-> None]
    ELSE [op |-> "nothing", arg |-> None, new_name |-> None]

\* C13 (Command surface sequencing): the calls of a run of main are, in this
\* order, the construction from the prompted source (manual copy) or from the
\* default source (master.circ if it exists, else the fetched text), one
\* transfer per requested name (exactly one, of the prompted name, in a manual
\* copy), one save to the destination path; a call that raises is the last
\* one, so save is called at most once and only after every transfer
\* succeeded; a run that returns has made all of these calls.
C13_Sequencing ==
    /\ (mode = "manual") = (mode # "none" /\ picked.leaf = "copy_circ")
    /\ mode = "manual" => Len(picked.items) = 1 /\ (Len(log) > 0 => log[1].arg \in SourceInputs)
    /\ \A i \in 1..Len(log) :
          /\ [op |-> log[i].op, arg |-> log[i].arg, new_name |-> log[i].new_name] = Expected(i)
          /\ i < Len(log) => log[i].exc = NoExc
    /\ Cardinality({i \in 1..Len(log) : log[i].op = "save"}) <= 1
    /\ pc = "returned" =>
          /\ Len(log) = Prelude + Len(picked.items) + 1
          /\ log[Len(log)].op = "save"
          /\ log[Len(log)].exc = NoExc

\* A manual copy ran to its end: one construction, one transfer, one save.
C13_Witness ==
    /\ pc = "returned"
    /\ mode = "manual"
    /\ Len(log) = 3
    /\ log[2].op = "copy_to_dst"
    /\ log[2].arg = picked.items[1]
    /\ log[3].op = "save"
    /\ disk # disk0


\* A path that _sanitize_path accepts: a string that names a regular file.
ValidPath(d, path) == path # None /\ Exists(d, Cleaned(path)) /\ IsFile(d, Cleaned(path))
PathErrors == {"TypeError", "FileNotFoundError", "ValueError: Path is not a file"}

\* C14 as stated (Input validation aborts first): when the source or the
\* destination path given to a run is not a string, does not exist or is not
\* a regular file, the construction raises the path error and no document has
\* been loaded, changed or written.
C14_ValidationFirst ==
    [][(/\ Called("CircuitTransfer")
        /\ mode' = "manual"
        /\ ~ValidPath(disk, TheCall.arg) \/ ~ValidPath(disk, destination_file)) =>
          /\ exc'.type \in PathErrors
          /\ heap' = heap
          /\ src' = Unset
          /\ dst' = Unset
          /\ disk' = disk]_vars

\* C14 amended: a non-empty source path that is not valid is rejected before
\* anything is loaded; a destination path that is not valid is rejected
\* before the destination is loaded, when the source (if its path is not
\* empty) has already been loaded; an empty source path is not validated.  A
\* path error ends the run with no document changed and no file written.
C14_ValidationAmended ==
    [][Called("CircuitTransfer") =>
          /\ (TheCall.arg # "" /\ ~ValidPath(disk, TheCall.arg)) =>
                /\ exc'.type \in PathErrors
                /\ heap' = heap
                /\ src' = Unset
                /\ dst' = Unset
          /\ ((TheCall.arg = "" \/ ValidPath(disk, TheCall.arg))
                /\ ~ValidPath(disk, destination_file)
                /\ exc'.type # "ParseError") =>
                /\ exc'.type \in PathErrors
                /\ dst' = Unset
                /\ (TheCall.arg = "") = (src' = Unset)
                /\ src' # Unset => Struct(heap', src') = disk[Cleaned(TheCall.arg)]
          /\ exc'.type \in PathErrors =>
                /\ ~ValidPath(disk, TheCall.arg) \/ ~ValidPath(disk, destination_file)
                /\ pc' = "raised"
                /\ disk' = disk0
                /\ \A u \in 1..Len(heap) : heap'[u] = heap[u]]_vars

\* The destination path was rejected after the source had been loaded.
C14_Witness ==
    /\ pc = "raised"
    /\ Len(log) = 1
    /\ log[1].op = "CircuitTransfer"
    /\ log[1].exc.type \in PathErrors
    /\ ~ValidPath(disk, destination_file)
    /\ src # Unset
    /\ dst = Unset
    /\ disk = disk0


(***************************************************************************)
(* JSONMenu.run: the walk of a JSON value by numbered choices.             *)
(***************************************************************************)
\* The number of lines typed at the prompt of run.
MaxChoices == 4

\* A node of a JSON value: a dict, with its keys in order and the nodes of
\* their values, or a value that is not a dict.
Dict(keys, vals) ==
    [dict |-> TRUE, keys |-> keys, vals |-> vals, leaf |-> [leaf |-> "none", items |-> <<>>]]
Leaf(value) == [dict |-> FALSE, keys |-> <<>>, vals |-> <<>>, leaf |-> value]

\* {"Gates": {"Basic": ["A", "B"], "Gates": {}}, "Manual copy": "copy_circ"}
MenuNested ==
    <<Dict(<<"Gates", "Manual copy">>, <<2, 5>>),
      Dict(<<"Basic", "Gates">>, <<3, 4>>),
      Leaf(NameList(<<"A", "B">>)),
      Dict(<<>>, <<>>),
      Leaf(CopyCirc)>>
\* "copy_circ": a JSON text that is not an object.
MenuLeaf == <<Leaf(CopyCirc)>>
\* {"": {"": {"x": 7}}}
MenuDeep == <<Dict(<<"">>, <<2>>), Dict(<<"">>, <<3>>), Dict(<<"x">>, <<4>>), Leaf(Scalar)>>
Menus == {MenuNested, MenuLeaf, MenuDeep}

\* A line typed at the prompt is a sequence of characters.  Sup2 is the
\* superscript two, a character that is a digit but not a decimal digit.
Sup2 == "SUPERSCRIPT TWO"
Decimal == {"0", "1", "2", "3"}
Digit == Decimal \cup {Sup2}
Lines == {<<"1">>, <<"2">>, <<"3">>, <<"0">>, <<"0", "1">>, <<"x">>, <<>>, <<Sup2>>}

\* str.isdigit: not empty, and every character is a digit.
isdigit(choice) == Len(choice) > 0 /\ \A i \in 1..Len(choice) : choice[i] \in Digit

DigitVal(c) == CASE c = "0" -> 0 [] c = "1" -> 1 [] c = "2" -> 2 [] c = "3" -> 3
RECURSIVE Value(_)
Value(s) == IF s = <<>> THEN 0 ELSE 10 * Value(SubSeq(s, 1, Len(s) - 1)) + DigitVal(s[Len(s)])

\* int(choice): the number written in decimal digits; anything else raises.
int(choice) ==
    IF Len(choice) > 0 /\ \A i \in 1..Len(choice) : choice[i] \in Decimal
    THEN [exc |-> NoExc, val |-> Value(choice)]
    ELSE [exc |-> Raise("ValueError: invalid literal for int()"), val |-> 0]

\* The locals of run.
Locals ==
    [current |-> current, parent_key |-> parent_key,
     history |-> history, key_history |-> key_history]
SetLocals(c) ==
    /\ current' = c.current
    /\ parent_key' = c.parent_key
    /\ history' = c.history
    /\ key_history' = c.key_history

Last(s) == s[Len(s)]
Front(s) == SubSeq(s, 1, Len(s) - 1)

\* Lines 143-144: Back.
HandleBack(c) ==
    [current |-> Last(c.history),
     history |-> Front(c.history),
     parent_key |-> IF c.key_history # <<>> THEN Last(c.key_history) ELSE None,
     key_history |-> IF c.key_history # <<>> THEN Front(c.key_history) ELSE <<>>]

\* As NormalPick, but the parent key is not pushed.
NormalPickNoKey(m, c, choice) ==
    [history |-> Append(c.history, c.current),
     key_history |-> c.key_history,
     parent_key |-> m[c.current].keys[choice],
     current |-> m[c.current].vals[choice]]

\* Lines 149-157: the pick of the choice-th key.
NormalPick(m, c, choice) ==
    [history |-> Append(c.history, c.current),
     key_history |-> Append(c.key_history, c.parent_key),
     parent_key |-> m[c.current].keys[choice],
     current |-> m[c.current].vals[choice]]

corevars == <<heap, src, dst, disk, disk0, mode, idx, destination_file, log>>

\* run starts on the JSON value of the menu (lines 105-108).
MenuInit ==
    /\ menu \in Menus
    /\ current = 1
    /\ parent_key = None
    /\ history = <<>>
    /\ key_history = <<>>
    /\ choices = <<>>
    /\ trail = <<>>
    /\ keypath = <<>>
    /\ pc = "menu"
    /\ picked = [leaf |-> "none", items |-> <<>>]
    /\ exc = NoExc
    /\ heap = <<>>
    /\ src = Unset
    /\ dst = Unset
    /\ disk = World(<<>>, <<>>, Missing)
    /\ disk0 = disk
    /\ mode = "none"
    /\ idx = 0
    /\ destination_file = None
    /\ log = <<>>

\* Line 133: a line is read at the prompt of a dict.
Input(choice) ==
    /\ pc = "menu"
    /\ menu[current].dict
    /\ Len(choices) < MaxChoices
    /\ choices' = Append(choices, choice)
    /\ trail' = Append(trail, Locals)

\* Lines 112-114: current is not a dict; run returns it.
MenuReturn ==
    /\ pc = "menu"
    /\ ~menu[current].dict
    /\ picked' = menu[current].leaf
    /\ pc' = "menu_returned"
    /\ UNCHANGED <<corevars, exc, menu, current, parent_key, history, key_history,
                   choices, trail, keypath>>

\* Lines 135-137: the line is not made of digits.
MenuInvalidText ==
    /\ \E choice \in Lines :
          /\ Input(choice)
          /\ ~isdigit(choice)
    /\ UNCHANGED <<corevars, pc, picked, exc, menu, current, parent_key, history,
                   key_history, keypath>>

\* Line 139: int raises on a line of digits that is no decimal number.
MenuIntError ==
    /\ \E choice \in Lines :
          /\ Input(choice)
          /\ isdigit(choice)
          /\ int(choice).exc # NoExc
          /\ exc' = int(choice).exc
    /\ pc' = "menu_raised"
    /\ UNCHANGED <<corevars, picked, menu, current, parent_key, history, key_history, keypath>>

\* Lines 142-145: Back, offered below the root as the number after the keys.
MenuBack ==
    /\ \E choice \in Lines :
          /\ Input(choice)
          /\ isdigit(choice)
          /\ int(choice).exc = NoExc
          /\ history # <<>>
          /\ int(choice).val = Len(menu[current].keys) + 1
    /\ SetLocals(HandleBack(Locals))
    /\ keypath' = Front(keypath)
    /\ UNCHANGED <<corevars, pc, picked, exc, menu>>

\* Lines 148-157: a key is picked.
MenuPick ==
    /\ \E choice \in Lines :
          /\ Input(choice)
          /\ isdigit(choice)
          /\ int(choice).exc = NoExc
          /\ ~(history # <<>> /\ int(choice).val = Len(menu[current].keys) + 1)
          /\ 1 <= int(choice).val
          /\ int(choice).val <= Len(menu[current].keys)
          /\ SetLocals(NormalPick(menu, Locals, int(choice).val))
          /\ keypath' = Append(keypath, menu[current].keys[int(choice).val])
    /\ UNCHANGED <<corevars, pc, picked, exc, menu>>

\* Lines 158-159: a number that is neither a key nor Back.
MenuInvalidNumber ==
    /\ \E choice \in Lines :
          /\ Input(choice)
          /\ isdigit(choice)
          /\ int(choice).exc = NoExc
          /\ ~(history # <<>> /\ int(choice).val = Len(menu[current].keys) + 1)
          /\ ~(1 <= int(choice).val /\ int(choice).val <= Len(menu[current].keys))
    /\ UNCHANGED <<corevars, pc, picked, exc, menu, current, parent_key, history,
                   key_history, keypath>>

MenuNext ==
    \/ MenuReturn
    \/ MenuInvalidText
    \/ MenuIntError
    \/ MenuBack
    \/ MenuPick
    \/ MenuInvalidNumber

MenuSpec == MenuInit /\ [][MenuNext]_vars


(***************************************************************************)
(* Properties of JSONMenu.run, checked under MenuSpec.                     *)
(***************************************************************************)
\* The dict that holds node n as a value, and the depth of n below the root.
ParentOf(m, n) == CHOOSE q \in 1..Len(m) : \E i \in 1..Len(m[q].vals) : m[q].vals[i] = n
RECURSIVE Depth(_, _)
Depth(m, n) == IF n = 1 THEN 0 ELSE 1 + Depth(m, ParentOf(m, n))

\* The node reached from node n by a sequence of keys.
RECURSIVE Walk(_, _, _)
Walk(m, n, keys) ==
    IF keys = <<>> THEN n
    ELSE LET i == CHOOSE j \in 1..Len(m[n].keys) : m[n].keys[j] = Head(keys)
         IN  Walk(m, m[n].vals[i], Tail(keys))

\* C18 (Menu navigation invariant): at the top of every iteration of run,
\* history and key_history have the same length, which is the depth of
\* current below the root; the top of history is the dict that holds current
\* under the key parent_key; history is empty exactly when current is the
\* root; current is the node reached from the root by the keys picked and
\* not undone.  What run returns is that node, and it is not a dict.
C18_Navigation ==
    /\ pc = "menu" =>
          /\ Len(history) = Len(key_history)
          /\ Len(history) = Depth(menu, current)
          /\ \A k \in 1..Len(history) : menu[history[k]].dict
          /\ history # <<>> =>
                \E i \in 1..Len(menu[Last(history)].keys) :
                    /\ menu[Last(history)].keys[i] = parent_key
                    /\ menu[Last(history)].vals[i] = current
          /\ (history = <<>>) = (current = 1)
          /\ history = <<>> => parent_key = None
          /\ current = Walk(menu, 1, keypath)
    /\ pc = "menu_returned" =>
          /\ ~menu[current].dict
          /\ current = Walk(menu, 1, keypath)
          /\ picked = menu[current].leaf

\* Gates, Back, Gates, Basic: run returned the list under Gates / Basic.
C18_Witness ==
    /\ pc = "menu_returned"
    /\ menu = MenuNested
    /\ choices = <<<<"1">>, <<"3">>, <<"1">>, <<"1">>>>
    /\ keypath = <<"Gates", "Basic">>
    /\ picked = NameList(<<"A", "B">>)

\* The locals of run after the k-th line typed.
LocalsAfter(k) == IF k = Len(trail) THEN Locals ELSE trail[k + 1]
\* A line that is a decimal number.
Numeric(choice) == Len(choice) > 0 /\ \A i \in 1..Len(choice) : choice[i] \in Decimal
\* With locals c, the line is the number of a key; is the number of Back.
IsKey(c, choice) ==
    Numeric(choice) /\ 1 <= Value(choice) /\ Value(choice) <= Len(menu[c.current].keys)
IsBack(c, choice) ==
    Numeric(choice) /\ c.history # <<>> /\ Value(choice) = Len(menu[c.current].keys) + 1

\* C19 (Menu Back and invalid input): a valid key followed by Back leaves
\* current, parent_key, history and key_history as they were before the key;
\* Back is taken only below the root; a line that is not a number, or a number
\* that is neither a key nor (below the root) the number after the keys, is
\* rejected: run asks again with the same locals.
C19_BackInvalid ==
    /\ pc \in {"menu", "menu_returned", "menu_raised"}
    /\ \A k \in 1..Len(choices) :
          /\ (k < Len(choices) /\ IsKey(trail[k], choices[k]) /\ IsBack(trail[k + 1], choices[k + 1]))
                => LocalsAfter(k + 1) = trail[k]
          /\ Len(LocalsAfter(k).history) < Len(trail[k].history) => trail[k].history # <<>>
          /\ (~IsKey(trail[k], choices[k]) /\ ~IsBack(trail[k], choices[k]))
                => /\ LocalsAfter(k) = trail[k]
                   /\ k = Len(choices) => pc = "menu"

====
